---- MODULE Spec2Model ----
(***************************************************************************)
(* Untang.ly: the node grid of the flowcharting canvas.                    *)
(*                                                                         *)
(* The repository holds four revisions of the grid, and a run of the model *)
(* is a run of one of them (rev):                                          *)
(*   part_000  src/unnamed/part_000: grid, node, bound, createSingleNode,  *)
(*             createEngagedNode, deleteNode, adjustBound;                 *)
(*   part_001  src/unnamed/part_001: the same without deleteNode, with the *)
(*             south and west bounds kept as negative numbers;             *)
(*   untangly  src/untangly.js: U.singleNode.create, U.engagedNode.create, *)
(*             bounds set to the new node's coordinate;                    *)
(*   part_002  src/unnamed/part_002: U.Node, U.Canvas, U.CanvasController. *)
(*                                                                         *)
(* JavaScript objects are shared by reference between grid and node, so    *)
(* the model keeps a heap: grid and node hold object identities (uids) and *)
(* heap maps a uid to the object's fields.                                 *)
(***************************************************************************)
EXTENDS Integers, Sequences, FiniteSets, TLC

\* grid, node, bound: the closure's private state.  heap: the node objects.
\* err: the exception, if any, that ended the last operation.
\* last, prev: the last operation and the state it started from.
\* ops: the number of operations so far.
\* rev: the revision that runs.  calls: the number of calls made so far
\* outside the user interface's use.  view: the canvas as drawn, its width and
\* height in grid units beyond the room of one node, and the number of times
\* the last operation resized it.  ui: the user interface of part_000, the
\* stack of UI elements shown, the coordinates and the origin of the function
\* in Shapes.eventHandler, and the coordinates of the menu's node.  anim: the
\* queue of Canvas.prototype.animate and the animations it has handed to the
\* drawing library.
VARIABLES grid, node, heap, bound, err, last, prev, ops, rev, calls, view, ui,
          anim

vars == <<grid, node, heap, bound, err, last, prev, ops, rev, calls, view, ui,
          anim>>

Revisions == {"part_000", "part_001", "untangly", "part_002"}

(* ----------------------------- bounds --------------------------------- *)

\* Engage is offered only at coordinates with |x|, |y| <= MaxCoord.
MaxCoord == 1

\* At most this many Engaged nodes at a time.
MaxEngaged == 3

\* At most this many operations (actions of Next) in a run.
MaxOps == 6

\* At most this many calls outside the user interface's use in a run.
MaxCalls == 1

\* At most this many operations on the data in a run of the user interface.
MaxUiOps == 5

\* At most this many UI elements in the stack of active elements.
MaxStack == 3

\* At most this many animations registered in a run.
MaxAnims == 5

\* Number of distinct shape descriptors (path data strings) on offer.
NumShapes == 2

(* --------------------------- JS values -------------------------------- *)

\* JavaScript's undefined, as a grid cell, an array hole or a missing field.
Undefined == 0

\* Math.max.apply(Math, []) and -Math.min.apply(Math, []) are -Infinity.
NegInfinity == -1000

Shapes == 1..NumShapes

SetMax(S) == IF S = {} THEN NegInfinity ELSE CHOOSE m \in S : \A k \in S : k <= m

SetMin(S) == IF S = {} THEN -NegInfinity ELSE CHOOSE m \in S : \A k \in S : m <= k

\* a + b on JS numbers, where -Infinity absorbs.
NumAdd(a, b) == IF a = NegInfinity \/ b = NegInfinity THEN NegInfinity ELSE a + b

\* a - b on JS numbers (b finite or -Infinity, a finite or -Infinity).
NumSub(a, b) == IF a = NegInfinity THEN NegInfinity ELSE a - b

\* -a on JS numbers; -(-Infinity) is +Infinity.
NumNeg(a) == -a

(* ------------------------------ grid ---------------------------------- *)

\* grid[x] is defined (createSingleNode has created the column array).
HasCol(g, x) == x \in DOMAIN g

\* grid[x][y] where grid[x] is known to be defined; Undefined for a hole.
Cell(g, x, y) == IF y \in DOMAIN g[x] THEN g[x][y] ELSE Undefined

\* grid[x] && grid[x][y]
CellOrUndef(g, x, y) == IF HasCol(g, x) THEN Cell(g, x, y) ELSE Undefined

\* grid[x][y] = u
GridPut(g, x, y, u) ==
    [xx \in DOMAIN g |->
        IF xx = x
        THEN [yy \in (DOMAIN g[x]) \cup {y} |-> IF yy = y THEN u ELSE g[x][yy]]
        ELSE g[xx]]

\* grid[x][y] = undefined
GridClear(g, x, y) ==
    [xx \in DOMAIN g |->
        IF xx = x THEN [yy \in (DOMAIN g[x]) \ {y} |-> g[x][yy]] ELSE g[xx]]

\* grid[x] = []
GridNewCol(g, x) ==
    [xx \in (DOMAIN g) \cup {x} |-> IF xx = x THEN [yy \in {} |-> Undefined] ELSE g[xx]]

(* --------------------------- node array ------------------------------- *)

\* a[i] = v for a zero-based index i; writing past the end leaves holes.
ArrSet(a, i, v) ==
    IF i < Len(a)
    THEN [a EXCEPT ![i + 1] = v]
    ELSE a \o [k \in 1..(i - Len(a)) |-> Undefined] \o <<v>>

\* a.pop()
ArrPop(a) == IF Len(a) = 0 THEN a ELSE SubSeq(a, 1, Len(a) - 1)

(* ------------------------------ state --------------------------------- *)

\* The closure's private state as one value, threaded through the calls.
State ==
    [grid |-> grid, node |-> node, heap |-> heap, bound |-> bound,
     view |-> [view EXCEPT !.resizes = 0], err |-> "none"]

Throw(S) == [S EXCEPT !.err = "TypeError"]

\* A fresh object identity: not the identity of any object still referenced.
NewUid(S) ==
    CHOOSE u \in 1..(Cardinality(DOMAIN S.heap) + 1) :
        /\ u \notin DOMAIN S.heap
        /\ \A v \in 1..(u - 1) : v \in DOMAIN S.heap

HeapPut(h, u, obj) == [v \in (DOMAIN h) \cup {u} |-> IF v = u THEN obj ELSE h[v]]

\* Objects no longer referenced from grid or node are garbage.
Referenced(S) ==
    {S.node[i] : i \in 1..Len(S.node)} \cup
    UNION {{S.grid[x][y] : y \in DOMAIN S.grid[x]} : x \in DOMAIN S.grid}

Collect(S) ==
    [S EXCEPT !.heap = [u \in (DOMAIN S.heap) \cap Referenced(S) |-> S.heap[u]]]

(* ---------------------------- operations ------------------------------ *)

\* Math.abs on JS numbers.
Abs(n) == IF n < 0 THEN -n ELSE n

\* locateNode(x, y): the canvas location of grid (x, y) under the current
\* bounds, in grid units from the location of the top left node.
\* (part_001 and untangly.js take Math.abs(bound.west).)
locateNode(S, x, y) ==
    IF rev = "part_000"
    THEN <<NumAdd(S.bound.west, x), NumSub(S.bound.north, y)>>
    ELSE <<Abs(S.bound.west) + x, S.bound.north - y>>

\* resizeCanvas(): the canvas takes its width and height from the bounds.
resizeCanvas(S) ==
    [S EXCEPT !.view =
        [width |-> IF rev = "part_000" THEN NumAdd(S.bound.west, S.bound.east)
                   ELSE Abs(S.bound.west) + S.bound.east,
         height |-> IF rev = "part_000" THEN NumAdd(S.bound.north, S.bound.south)
                    ELSE S.bound.north + Abs(S.bound.south),
         resizes |-> @.resizes + 1]]

\* for (i = node.length; i--;) { c.move(node[i].shape, dx, dy); }
moveAll(S, dx, dy) ==
    IF \E i \in 1..Len(S.node) : S.node[i] = Undefined
    THEN Throw(S)
    ELSE [S EXCEPT !.heap =
            [u \in DOMAIN S.heap |->
                IF \E i \in 1..Len(S.node) : S.node[i] = u
                THEN [S.heap[u] EXCEPT !.pos = <<NumAdd(@[1], dx), NumAdd(@[2], dy)>>]
                ELSE S.heap[u]]]

\* adjustBoundBy with bound[direction] -= value.
adjustBoundBy_Minus(S, direction, value) ==
    resizeCanvas([S EXCEPT !.bound[direction] = NumSub(@, value)])

\* adjustBound(direction, value) for a named direction: bound[direction] +=
\* value, resizeCanvas(), and for north and west the move of every node.
adjustBoundBy(S, direction, value) ==
    LET S1 == resizeCanvas([S EXCEPT !.bound[direction] = NumAdd(@, value)])
    IN  IF direction = "north" THEN moveAll(S1, 0, value)
        ELSE IF direction = "west" THEN moveAll(S1, value, 0)
        ELSE S1

\* adjustBoundAll with the negation of the minima left out.
adjustBoundAll_NoNegate(S) ==
    LET allX == {S.heap[S.node[i]].x : i \in 1..Len(S.node)}
        allY == {S.heap[S.node[i]].y : i \in 1..Len(S.node)}
    IN  [S EXCEPT !.bound = [north |-> SetMax(allY), east |-> SetMax(allX),
                             south |-> SetMin(allY), west |-> SetMin(allX)]]

\* adjustBoundAll with every bound clamped at 0.
adjustBoundAll_Clamp(S) ==
    LET allX == {S.heap[S.node[i]].x : i \in 1..Len(S.node)}
        allY == {S.heap[S.node[i]].y : i \in 1..Len(S.node)}
        Pos(n) == IF n < 0 THEN 0 ELSE n
    IN  [S EXCEPT !.bound = [north |-> Pos(SetMax(allY)), east |-> Pos(SetMax(allX)),
                             south |-> Pos(-SetMin(allY)), west |-> Pos(-SetMin(allX))]]

\* adjustBound() with no arguments: all four bounds from the node array.
adjustBoundAll(S) ==
    IF \E i \in 1..Len(S.node) : S.node[i] = Undefined
    THEN Throw(S)
    ELSE LET allX == {S.heap[S.node[i]].x : i \in 1..Len(S.node)}
             allY == {S.heap[S.node[i]].y : i \in 1..Len(S.node)}
             S1 == adjustBoundBy(S, "north", NumSub(SetMax(allY), S.bound.north))
             S2 == adjustBoundBy(S1, "east", NumSub(SetMax(allX), S1.bound.east))
             S3 == adjustBoundBy(S2, "south", NumSub(NumNeg(SetMin(allY)), S2.bound.south))
             S4 == adjustBoundBy(S3, "west", NumSub(NumNeg(SetMin(allX)), S3.bound.west))
         IN  S4

\* ExpandedBound with >= and <= in place of > and <.
ExpandedBound_Inclusive(b, x, y) ==
    IF y >= b.north THEN "north"
    ELSE IF x >= b.east THEN "east"
    ELSE IF y <= NumNeg(b.south) THEN "south"
    ELSE IF x <= NumNeg(b.west) THEN "west"
    ELSE "none"

\* The bound, if any, that createSingleNode expands for a new node at (x, y).
ExpandedBound(b, x, y) ==
    IF y > b.north THEN "north"
    ELSE IF x > b.east THEN "east"
    ELSE IF y < NumNeg(b.south) THEN "south"
    ELSE IF x < NumNeg(b.west) THEN "west"
    ELSE "none"

\* part_001 and untangly.js: the bound tests, with south and west negative.
ExpandedBoundSigned(b, x, y) ==
    IF y > 0 /\ y > b.north THEN "north"
    ELSE IF x > 0 /\ x > b.east THEN "east"
    ELSE IF y < 0 /\ y < b.south THEN "south"
    ELSE IF x < 0 /\ x < b.west THEN "west"
    ELSE "none"

\* adjustBoundSigned with += for every direction.
adjustBoundSigned_AllPlus(S, direction, value) ==
    resizeCanvas([S EXCEPT !.bound[direction] = @ + value])

\* part_001: adjustBound(direction, value); the nodes move by one unit
\* (space + object) whatever the value.
adjustBoundSigned(S, direction, value) ==
    LET S1 == resizeCanvas([S EXCEPT !.bound[direction] =
                    IF direction \in {"north", "east"} THEN @ + value ELSE @ - value])
    IN  IF direction = "north" THEN moveAll(S1, 0, 1)
        ELSE IF direction = "west" THEN moveAll(S1, 1, 0)
        ELSE S1

\* untangly.js: bound.north = y, bound.east = x, bound.south = y, bound.west = x;
\* c.setSize adds one gap to the width or the height; for north and west
\* every node is translated by one gap.
setBound(S, direction, x, y) ==
    LET S1 == [S EXCEPT !.bound[direction] =
                    IF direction \in {"north", "south"} THEN y ELSE x,
                      !.view = [width |-> IF direction \in {"east", "west"}
                                          THEN @.width + 1 ELSE @.width,
                                height |-> IF direction \in {"north", "south"}
                                           THEN @.height + 1 ELSE @.height,
                                resizes |-> @.resizes + 1]]
    IN  IF direction = "north" THEN moveAll(S1, 0, 1)
        ELSE IF direction = "west" THEN moveAll(S1, 1, 0)
        ELSE S1

\* The bound step of createSingleNode, in the revision that runs.
expandBound(S, x, y) ==
    IF rev = "part_001"
    THEN LET dir == ExpandedBoundSigned(S.bound, x, y)
         IN  IF dir = "none" THEN S ELSE adjustBoundSigned(S, dir, 1)
    ELSE IF rev = "untangly"
    THEN LET dir == ExpandedBoundSigned(S.bound, x, y)
         IN  IF dir = "none" THEN S ELSE setBound(S, dir, x, y)
    ELSE LET dir == ExpandedBound(S.bound, x, y)
         IN  IF dir = "none" THEN S ELSE adjustBoundBy(S, dir, 1)

\* createSingleNode without the test that grid[x][y] is undefined.
createSingleNode_Overwrite(S, x, y) ==
    LET S1 == IF HasCol(S.grid, x) THEN S ELSE [S EXCEPT !.grid = GridNewCol(@, x)]
        S2 == expandBound(S1, x, y)
        u == NewUid(S2)
        newNode == [x |-> x, y |-> y, id |-> Len(S2.node), type |-> "single",
                    shapePath |-> Undefined, pos |-> locateNode(S2, x, y)]
    IN  IF S2.err # "none" THEN S2
        ELSE [S2 EXCEPT !.heap = HeapPut(@, u, newNode),
                        !.grid = GridPut(@, x, y, u),
                        !.node = Append(@, u)]

\* createSingleNode with locateNode called before the bound is expanded.
createSingleNode_LocateFirst(S, x, y) ==
    LET S1 == IF HasCol(S.grid, x) THEN S ELSE [S EXCEPT !.grid = GridNewCol(@, x)]
    IN  IF Cell(S1.grid, x, y) # Undefined
        THEN S1
        ELSE LET S2 == expandBound(S1, x, y)
                 u == NewUid(S2)
                 newNode == [x |-> x, y |-> y, id |-> Len(S2.node), type |-> "single",
                             shapePath |-> Undefined, pos |-> locateNode(S1, x, y)]
             IN  IF S2.err # "none" THEN S2
                 ELSE [S2 EXCEPT !.heap = HeapPut(@, u, newNode),
                                 !.grid = GridPut(@, x, y, u),
                                 !.node = Append(@, u)]

\* createSingleNode(x, y)
createSingleNode(S, x, y) ==
    LET S1 == IF HasCol(S.grid, x) THEN S ELSE [S EXCEPT !.grid = GridNewCol(@, x)]
    IN  IF Cell(S1.grid, x, y) # Undefined
        THEN S1
        ELSE LET S2 == expandBound(S1, x, y)
                 u == NewUid(S2)
                 newNode == [x |-> x, y |-> y, id |-> Len(S2.node), type |-> "single",
                             shapePath |-> Undefined, pos |-> locateNode(S2, x, y)]
             IN  IF S2.err # "none" THEN S2
                 ELSE [S2 EXCEPT !.heap = HeapPut(@, u, newNode),
                                 !.grid = GridPut(@, x, y, u),
                                 !.node = Append(@, u)]

\* engageSelected without the assignment of shapePath.
engageSelected_NoPath(S, x, y, pathData) ==
    [S EXCEPT !.heap[Cell(S.grid, x, y)].type = "engaged",
              !.heap[Cell(S.grid, x, y)].pos = locateNode(S, x, y)]

\* createEngagedNode up to its fan-out: the node at (x, y) takes the path data,
\* its shape is replaced by a path drawn at locateNode(x, y), and it becomes
\* Engaged.
engageSelected(S, x, y, pathData) ==
    LET u == Cell(S.grid, x, y)
    IN  [S EXCEPT !.heap[u].shapePath = pathData, !.heap[u].type = "engaged",
                  !.heap[u].pos = locateNode(S, x, y)]

\* FanOut without the call for the western neighbour.
FanOut_NoWest(x, y) == <<(<<x, y + 1>>), (<<x + 1, y>>), (<<x, y - 1>>)>>

\* The coordinates createEngagedNode creates Single nodes at, in call order.
FanOut(x, y) == <<(<<x, y + 1>>), (<<x + 1, y>>), (<<x, y - 1>>), (<<x - 1, y>>)>>

RECURSIVE createEach(_, _, _)
createEach(S, cs, k) ==
    IF k > Len(cs) THEN S
    ELSE createEach(createSingleNode(S, cs[k][1], cs[k][2]), cs, k + 1)

createEngagedNode(S, x, y, pathData) ==
    IF ~HasCol(S.grid, x) \/ Cell(S.grid, x, y) = Undefined
    THEN Throw(S)
    ELSE createEach(engageSelected(S, x, y, pathData), FanOut(x, y), 1)

\* spliceNode without the update of the moved node's id.
spliceNode_NoIdUpdate(S, u) ==
    LET l == Len(S.node)
    IN  IF l = 0 \/ S.node[l] = Undefined
        THEN Throw(S)
        ELSE [S EXCEPT !.node = ArrPop(ArrSet(@, S.heap[u].id, S.node[l]))]

\* The swap-removal of deleteNode, for the object u:
\*   l = node.length; node[l - 1].id = u.id; node[u.id] = node[l - 1]; node.pop();
spliceNode(S, u) ==
    LET l == Len(S.node)
    IN  IF l = 0 \/ S.node[l] = Undefined
        THEN Throw(S)
        ELSE LET lastU == S.node[l]
                 id == S.heap[u].id
             IN  [S EXCEPT !.heap[lastU].id = id,
                           !.node = ArrPop(ArrSet(@, id, lastU))]

\* TypeIs that holds of a node of any type.
TypeIs_Any(S, x, y, t) == Cell(S.grid, x, y) # Undefined

\* grid[x][y].type === t, where the read throws unless a node is there.
TypeIs(S, x, y, t) == S.heap[Cell(S.grid, x, y)].type = t

\* grid[x][y] is absent, so that reading grid[x][y].type throws.
Absent(S, x, y) == ~HasCol(S.grid, x) \/ Cell(S.grid, x, y) = Undefined

\* EngagedAt with the type test left out: any node at (x, y) counts.
EngagedAt_AnyNode(S, x, y) == CellOrUndef(S.grid, x, y) # Undefined

\* One of the loop's guarded tests: a node is at (x, y) and it is Engaged.
EngagedAt(S, x, y) ==
    /\ CellOrUndef(S.grid, x, y) # Undefined
    /\ S.heap[CellOrUndef(S.grid, x, y)].type = "engaged"

\* testOne without the four neighbour tests: every entry of test is removed.
testOne_NoLookahead(S, u) ==
    LET S1 == spliceNode(S, u)
    IN  IF S1.err # "none" THEN S1
        ELSE [S1 EXCEPT !.grid = GridClear(@, S.heap[u].x, S.heap[u].y)]

\* testOne without the tests of grid[x + 1] and grid[x - 1]: the reads of
\* grid[x + 1][y] and grid[x - 1][y] throw where the column is undefined.
testOne_NoColumnGuard(S, u) ==
    LET x == S.heap[u].x
        y == S.heap[u].y
    IN  IF EngagedAt(S, x, y + 1) THEN S
        ELSE IF ~HasCol(S.grid, x + 1) THEN Throw(S)
        ELSE IF EngagedAt(S, x + 1, y) \/ EngagedAt(S, x, y - 1) THEN S
        ELSE IF ~HasCol(S.grid, x - 1) THEN Throw(S)
        ELSE IF EngagedAt(S, x - 1, y) THEN S
        ELSE LET S1 == spliceNode(S, u)
             IN  IF S1.err # "none" THEN S1
                 ELSE [S1 EXCEPT !.grid = GridClear(@, x, y)]

\* The body of deleteNode's loop for one entry of test.
testOne(S, u) ==
    LET x == S.heap[u].x
        y == S.heap[u].y
    IN  IF \/ EngagedAt(S, x, y + 1)
           \/ EngagedAt(S, x + 1, y)
           \/ EngagedAt(S, x, y - 1)
           \/ EngagedAt(S, x - 1, y)
        THEN S
        ELSE LET S1 == spliceNode(S, u)
             IN  IF S1.err # "none" THEN S1
                 ELSE [S1 EXCEPT !.grid = GridClear(@, x, y)]

\* for (i = test.length; i--;) { ... }: the entries of test, last to first.
RECURSIVE testLoop(_, _, _)
testLoop(S, test, i) ==
    IF i = 0 \/ S.err # "none"
    THEN S
    ELSE testLoop(testOne(S, test[i]), test, i - 1)

\* The Single neighbours pushed onto test, in the order North, East, South,
\* West; a read of an absent neighbour's type throws.
RECURSIVE pushSingles(_, _, _, _, _)
pushSingles(S, x, y, test, k) ==
    LET offs == <<(<<0, 1>>), (<<1, 0>>), (<<0, -1>>), (<<-1, 0>>)>>
    IN  IF k > 4 THEN [S |-> S, test |-> test]
        ELSE LET nx == x + offs[k][1]
                 ny == y + offs[k][2]
             IN  IF Absent(S, nx, ny)
                 THEN [S |-> Throw(S), test |-> test]
                 ELSE pushSingles(S, x, y,
                                  IF TypeIs(S, nx, ny, "single")
                                  THEN Append(test, Cell(S.grid, nx, ny))
                                  ELSE test,
                                  k + 1)

\* testReplacement that never puts the replacement node to the test.
testReplacement_Never(l) == FALSE

\* testReplacement without the exception for the last five nodes.
testReplacement_Always(l) == TRUE

\* if (l !== 5): whether the Single node put in place of the removed node is
\* itself tested for removal.
testReplacement(l) == l # 5

\* deleteNode up to its call of createSingleNode: the node is spliced out of
\* the node array and its grid cell is cleared.
unlinkNode(S, x, y) ==
    LET S1 == spliceNode(S, Cell(S.grid, x, y))
    IN  IF S1.err # "none" THEN S1 ELSE [S1 EXCEPT !.grid = GridClear(@, x, y)]

\* deleteNode up to its loop: the node is unlinked, a Single node is created in
\* its place, and the test array is filled.
collectTests(S, x, y) ==
    LET l == Len(S.node)
        S2 == unlinkNode(S, x, y)
        S3 == createSingleNode(S2, x, y)
        test0 == IF testReplacement(l) THEN <<Cell(S3.grid, x, y)>> ELSE << >>
    IN  IF S2.err # "none" THEN [S |-> S2, test |-> << >>]
        ELSE pushSingles(S3, x, y, test0, 1)

\* deleteNode up to its call of adjustBound().
cleanNode(S, x, y) ==
    LET pushed == collectTests(S, x, y)
    IN  testLoop(pushed.S, pushed.test, Len(pushed.test))

\* deleteNode that clears the node's type and path data in place.
deleteNode_InPlace(S, x, y) ==
    IF Absent(S, x, y)
    THEN Throw(S)
    ELSE [S EXCEPT !.heap[Cell(S.grid, x, y)].type = "single",
                   !.heap[Cell(S.grid, x, y)].shapePath = Undefined]

\* deleteNode(x, y)
deleteNode(S, x, y) ==
    IF Absent(S, x, y)
    THEN Throw(S)
    ELSE LET S4 == cleanNode(S, x, y)
         IN  IF S4.err # "none" THEN S4 ELSE adjustBoundAll(S4)

(* ------------------ part_002: Node, Canvas, CanvasController ---------- *)

\* new U.Node(x, y): a Node object with no Shape.
Node(S, x, y) ==
    [S EXCEPT !.heap = HeapPut(@, NewUid(S), [x |-> x, y |-> y, shape |-> Undefined])]

\* Canvas.add(Node)
canvasAdd(S, u) ==
    LET x == S.heap[u].x
        y == S.heap[u].y
        S1 == IF HasCol(S.grid, x) THEN S ELSE [S EXCEPT !.grid = GridNewCol(@, x)]
    IN  IF Cell(S1.grid, x, y) # Undefined
        THEN S1
        ELSE [S1 EXCEPT !.grid = GridPut(@, x, y, u)]

\* this.model.add(new U.Node(x, y)); a Node that add did not store is
\* referenced by nothing once the call returns.
canvasAddNew(S, x, y) == Collect(canvasAdd(Node(S, x, y), NewUid(S)))

\* Canvas.remove(Node): grid[x][y] = undefined, which throws when grid[x] is
\* undefined.
canvasRemove(S, u) ==
    IF ~HasCol(S.grid, S.heap[u].x)
    THEN Throw(S)
    ELSE [S EXCEPT !.grid = GridClear(@, S.heap[u].x, S.heap[u].y)]

\* grid[x] && grid[x][y] && grid[x][y].shape, as a truth value.
ShapeAt(S, x, y) ==
    /\ CellOrUndef(S.grid, x, y) # Undefined
    /\ S.heap[CellOrUndef(S.grid, x, y)].shape # Undefined

\* controllerRemove without the test of the western neighbour's Shape.
controllerRemove_NoWest(S, u) ==
    IF u = Undefined
    THEN Throw(S)
    ELSE LET x == S.heap[u].x
             y == S.heap[u].y
         IN  IF /\ S.heap[u].shape = Undefined
                /\ ~ShapeAt(S, x, y + 1)
                /\ ~ShapeAt(S, x + 1, y)
                /\ ~ShapeAt(S, x, y - 1)
             THEN canvasRemove(S, u)
             ELSE S

\* CanvasController.remove(Node); Node is Undefined when the caller read an
\* empty cell.
controllerRemove(S, u) ==
    IF u = Undefined
    THEN Throw(S)
    ELSE LET x == S.heap[u].x
             y == S.heap[u].y
         IN  IF /\ S.heap[u].shape = Undefined
                /\ ~ShapeAt(S, x, y + 1)
                /\ ~ShapeAt(S, x + 1, y)
                /\ ~ShapeAt(S, x, y - 1)
                /\ ~ShapeAt(S, x - 1, y)
             THEN canvasRemove(S, u)
             ELSE S

RECURSIVE canvasAddEach(_, _, _)
canvasAddEach(S, cs, k) ==
    IF k > Len(cs) THEN S
    ELSE canvasAddEach(canvasAddNew(S, cs[k][1], cs[k][2]), cs, k + 1)

\* CanvasController.draw(Node, Shape)
controllerDraw(S, u, shape) ==
    canvasAddEach([S EXCEPT !.heap[u].shape = shape], FanOut(S.heap[u].x, S.heap[u].y), 1)

\* this.remove(this.model.grid[x][y]) for each neighbour in turn.
RECURSIVE controllerRemoveEach(_, _, _)
controllerRemoveEach(S, cs, k) ==
    IF k > Len(cs) \/ S.err # "none" THEN S
    ELSE IF ~HasCol(S.grid, cs[k][1]) THEN Throw(S)
    ELSE controllerRemoveEach(controllerRemove(S, Cell(S.grid, cs[k][1], cs[k][2])), cs, k + 1)

\* controllerUndraw without the call of Node.undraw().
controllerUndraw_KeepShape(S, u) ==
    controllerRemoveEach(S, FanOut(S.heap[u].x, S.heap[u].y), 1)

\* CanvasController.undraw(Node)
controllerUndraw(S, u) ==
    controllerRemoveEach([S EXCEPT !.heap[u].shape = Undefined],
                         FanOut(S.heap[u].x, S.heap[u].y), 1)

(* ------------------------------ actions ------------------------------- *)

NoBound == [north |-> 0, east |-> 0, south |-> 0, west |-> 0]

\* No UI element shown, Shapes.eventHandler = function () {}, menu.node = {}.
NoUi == [active |-> << >>, display |-> {}, log |-> << >>,
         call |-> [op |-> "none", name |-> "", master |-> ""],
         before |-> [active |-> << >>, display |-> {}],
         handler |-> "none", hx |-> 0, hy |-> 0,
         menu |-> FALSE, mx |-> 0, my |-> 0]

\* Canvas.prototype.animate's closure: queue = [null]; nothing animated yet.
\* An entry of the queue is null, false or a function, which holds the number
\* of its animation and its own index i in the queue (from 0).  started: the
\* animations handed to element.animate, in order.  running: those under
\* way, each with the callback it was given.  done: those completed.
\* chain: for each animation registered, the chain it belongs to and its
\* place in it.  ended: the number of animate() calls that closed a chain.
NoAnim == [queue |-> <<[kind |-> "null", id |-> 0, i |-> 0]>>,
           started |-> << >>, running |-> {}, done |-> {},
           chain |-> << >>, ended |-> 0, threw |-> FALSE]

Init ==
    /\ grid = [xx \in {} |-> Undefined]
    /\ node = << >>
    /\ heap = [u \in {} |-> Undefined]
    /\ bound = NoBound
    /\ err = "none"
    /\ last = [op |-> "init", x |-> 0, y |-> 0, d |-> Undefined]
    /\ prev = [grid |-> [xx \in {} |-> Undefined], node |-> << >>,
               heap |-> [u \in {} |-> Undefined], bound |-> NoBound,
               view |-> [width |-> 0, height |-> 0, resizes |-> 0], err |-> "none"]
    /\ ops = 0
    /\ rev \in Revisions
    /\ calls = 0
    /\ view = [width |-> 0, height |-> 0, resizes |-> 0]
    /\ ui = NoUi
    /\ anim = NoAnim

\* An operation's result becomes the state.  A run is followed up to its
\* first uncaught TypeError.
Commit(S, op, x, y, d) ==
    LET T == Collect(S)
    IN  /\ ops < MaxOps
        /\ err = "none"
        /\ ops' = ops + 1
        /\ grid' = T.grid
        /\ node' = T.node
        /\ heap' = T.heap
        /\ bound' = T.bound
        /\ view' = T.view
        /\ err' = T.err
        /\ last' = [op |-> op, x |-> x, y |-> y, d |-> d]
        /\ prev' = State
        /\ rev' = rev

Coords == (-MaxCoord..MaxCoord) \X (-MaxCoord..MaxCoord)

\* A node is at (x, y).
IsNode(x, y) == CellOrUndef(grid, x, y) # Undefined

\* Single or Engaged: part_002 tells them apart by the Shape, the others by type.
Kind(obj) ==
    IF "type" \in DOMAIN obj THEN obj.type
    ELSE IF obj.shape = Undefined THEN "single" ELSE "engaged"

IsType(x, y, t) == IsNode(x, y) /\ Kind(heap[CellOrUndef(grid, x, y)]) = t

EngagedCount == Cardinality({u \in DOMAIN heap : Kind(heap[u]) = "engaged"})

\* setTimeout(function () { createSingleNode(0, 0); }, 300)
Start ==
    /\ rev # "part_002"
    /\ last.op = "init"
    /\ Commit(createSingleNode(State, 0, 0), "start", 0, 0, Undefined)

\* A click on a Single node, then a shape chosen in the picker.
Engage ==
    \E c \in Coords, d \in Shapes :
        /\ rev # "part_002"
        /\ IsType(c[1], c[2], "single")
        /\ EngagedCount < MaxEngaged
        /\ Commit(createEngagedNode(State, c[1], c[2], d), "engage", c[1], c[2], d)

\* A click on an Engaged node, then a shape chosen again (part_000: through
\* the menu's "change shape"; part_001: the shape's own click handler).
ChangeShape ==
    \E c \in Coords, d \in Shapes :
        /\ rev \in {"part_000", "part_001"}
        /\ IsType(c[1], c[2], "engaged")
        /\ Commit(createEngagedNode(State, c[1], c[2], d), "change", c[1], c[2], d)

\* A click on an Engaged node, then "delete" in the menu.
Remove ==
    \E c \in Coords :
        /\ rev = "part_000"
        /\ IsType(c[1], c[2], "engaged")
        /\ Commit(deleteNode(State, c[1], c[2]), "remove", c[1], c[2], Undefined)

\* part_002: canvas.add(new U.Node(0, 0)) on the empty canvas.
CanvasStart ==
    /\ rev = "part_002"
    /\ last.op = "init"
    /\ Commit(canvasAddNew(State, 0, 0), "start", 0, 0, Undefined)

\* part_002: canvasController.draw(node, shape) for a node of the grid.
Draw ==
    \E c \in Coords, d \in Shapes :
        /\ rev = "part_002"
        /\ IsNode(c[1], c[2])
        /\ IsType(c[1], c[2], "engaged") \/ EngagedCount < MaxEngaged
        /\ Commit(controllerDraw(State, Cell(grid, c[1], c[2]), d),
                  IF IsType(c[1], c[2], "engaged") THEN "change" ELSE "engage",
                  c[1], c[2], d)

\* part_002: canvasController.undraw(node) for a node of the grid with a Shape.
Undraw ==
    \E c \in Coords :
        /\ rev = "part_002"
        /\ IsType(c[1], c[2], "engaged")
        /\ Commit(controllerUndraw(State, Cell(grid, c[1], c[2])), "remove",
                  c[1], c[2], Undefined)

Next ==
    /\ Start \/ Engage \/ ChangeShape \/ Remove \/ CanvasStart \/ Draw \/ Undraw
    /\ calls' = calls
    /\ ui' = ui
    /\ anim' = anim

Spec == Init /\ [][Next]_vars

(* ---------------- calls outside the user interface's use -------------- *)

\* deleteNode(x, y) called for a Single node ("Can only be called on Engaged
\* nodes").
RemoveSingle ==
    \E c \in Coords :
        /\ rev = "part_000"
        /\ IsType(c[1], c[2], "single")
        /\ Commit(deleteNode(State, c[1], c[2]), "removeSingle", c[1], c[2], Undefined)

\* createEngagedNode(x, y, pathData) called for a coordinate with no node.
EngageAbsent ==
    \E c \in Coords, d \in Shapes :
        /\ rev \in {"part_000", "part_001"}
        /\ last.op # "init"
        /\ ~IsNode(c[1], c[2])
        /\ Commit(createEngagedNode(State, c[1], c[2], d), "engageAbsent", c[1], c[2], d)

\* part_002: canvas.add(new U.Node(x, y)) at any coordinate.
CanvasAdd ==
    \E c \in Coords :
        /\ rev = "part_002"
        /\ last.op # "init"
        /\ Commit(canvasAddNew(State, c[1], c[2]), "add", c[1], c[2], Undefined)

\* part_002: canvas.remove(n), for the Node of the grid at (x, y) or, when
\* there is none, for a new U.Node(x, y).
CanvasRemove ==
    \E c \in Coords :
        /\ rev = "part_002"
        /\ last.op # "init"
        /\ Commit(IF IsNode(c[1], c[2])
                  THEN canvasRemove(State, Cell(grid, c[1], c[2]))
                  ELSE canvasRemove(Node(State, c[1], c[2]), NewUid(State)),
                  "canvasRemove", c[1], c[2], Undefined)

\* part_002: canvasController.remove(n) for a Node of the grid.
ControllerRemove ==
    \E c \in Coords :
        /\ rev = "part_002"
        /\ IsNode(c[1], c[2])
        /\ Commit(controllerRemove(State, Cell(grid, c[1], c[2])), "controllerRemove",
                  c[1], c[2], Undefined)

ApiCall ==
    /\ calls < MaxCalls
    /\ calls' = calls + 1
    /\ ui' = ui
    /\ anim' = anim
    /\ RemoveSingle \/ EngageAbsent \/ CanvasAdd \/ CanvasRemove \/ ControllerRemove

ApiNext == Next \/ ApiCall

\* The valid use together with the calls above.
ApiSpec == Init /\ [][ApiNext]_vars

(* ------------------- part_000: the user interface -------------------- *)

\* The names of the registered UI elements.
Names == {"menu", "shapes"}

\* for (i = active.length; i--;) { if (active[i] === name) { position = i; ... } }:
\* the place of name in active nearest to the top, 0 if name is not there.
RECURSIVE findFromTop(_, _, _)
findFromTop(active, name, i) ==
    IF i = 0 THEN 0
    ELSE IF active[i] = name THEN i
    ELSE findFromTop(active, name, i - 1)

\* name = active.pop(); element[name].deactivate(): the receiver sets
\* display to "none".
popTop(U) ==
    LET name == U.active[Len(U.active)]
    IN  [U EXCEPT !.active = SubSeq(@, 1, Len(@) - 1),
                  !.display = @ \ {name},
                  !.log = Append(@, name)]

\* for (i = active.length - 1; position <= i; i -= 1) { ... }
RECURSIVE popDown(_, _)
popDown(U, position) ==
    IF Len(U.active) < position THEN U ELSE popDown(popTop(U), position)

\* state.deactivate that hides the elements above the named one only.
deactivate_AboveOnly(U, name) ==
    IF name # ""
    THEN LET position == findFromTop(U.active, name, Len(U.active))
         IN  IF position = 0 THEN U ELSE popDown(U, position + 1)
    ELSE popDown(U, 1)

\* state.deactivate that hides nothing.
deactivate_Nothing(U, name) == U

\* state.deactivate(name): the named UI element and those above it are
\* hidden; with no name (""), all are.
deactivate(U, name) ==
    IF name # ""
    THEN LET position == findFromTop(U.active, name, Len(U.active))
         IN  IF position = 0 THEN U ELSE popDown(U, position)
    ELSE popDown(U, 1)

\* element[name].activate(options); active.push(name): the receiver sets
\* display to "block".
pushName(U, name) ==
    [U EXCEPT !.active = Append(@, name), !.display = @ \cup {name}]

\* state.activate that leaves the master's slave shown.
activate_KeepSlave(U, name, master) ==
    IF master # ""
    THEN pushName(U, name)
    ELSE pushName(deactivate(U, ""), name)

\* state.activate(name, options): with a master ("" for none) the element is
\* shown as the master's slave, in place of the slave there is; without, all
\* elements are hidden first.
activate(U, name, master) ==
    IF master # ""
    THEN LET m == findFromTop(U.active, master, Len(U.active))
         IN  IF m # 0 /\ m + 1 <= Len(U.active)
             THEN pushName(deactivate(U, U.active[m + 1]), name)
             ELSE pushName(U, name)
    ELSE pushName(deactivate(U, ""), name)

\* part_001, U.ui hide(name): the code of deactivate.
hide(U, name) == deactivate(U, name)

\* part_001, U.ui show(name, options): hide(active[sibling]) is called
\* whether or not a sibling was found.
show(U, name, master) ==
    LET m == IF master # "" THEN findFromTop(U.active, master, Len(U.active)) ELSE 0
    IN  IF m # 0 /\ m + 1 <= Len(U.active)
        THEN pushName(hide(U, U.active[m + 1]), name)
        ELSE pushName(hide(U, ""), name)

\* The UI element named is displayed.
Shown(name) == name \in ui.display

\* The user interface at the start of an event.
Fresh == [ui EXCEPT !.log = << >>]

Data == <<grid, node, heap, bound, err, last, prev, ops, rev, view>>

\* A click on the circle of a Single node: the shapes are shown and
\* Shapes.eventHandler calls createEngagedNode(x, y, pathData).
ClickSingle ==
    \E c \in Coords :
        /\ IsType(c[1], c[2], "single")
        /\ EngagedCount < MaxEngaged
        /\ err = "none"
        /\ ui' = [activate(Fresh, "shapes", "") EXCEPT
                      !.log = << >>, !.handler = "click", !.hx = c[1], !.hy = c[2]]
        /\ UNCHANGED Data

\* A click on the shape of an Engaged node: the menu is shown for the node.
ClickEngaged ==
    \E c \in Coords :
        /\ IsType(c[1], c[2], "engaged")
        /\ err = "none"
        /\ ui' = [activate(Fresh, "menu", "") EXCEPT
                      !.log = << >>, !.menu = TRUE, !.mx = c[1], !.my = c[2]]
        /\ UNCHANGED Data

\* A click on the menu's "change shape": the shapes are shown as the menu's
\* slave and Shapes.eventHandler calls createEngagedNode(node.x, node.y, pathData).
ClickChange ==
    /\ Shown("menu")
    /\ err = "none"
    /\ ui' = [activate(Fresh, "shapes", "menu") EXCEPT
                  !.log = << >>, !.handler = "change", !.hx = ui.mx, !.hy = ui.my]
    /\ UNCHANGED Data

\* A click on a shape's preview: state.deactivate("shapes"), then
\* Shapes.eventHandler(shape).
PickShape ==
    \E d \in Shapes :
        /\ Shown("shapes")
        /\ ops < MaxUiOps
        /\ ui' = [deactivate(Fresh, "shapes") EXCEPT !.log = << >>]
        /\ IF ui.handler = "none"
           THEN UNCHANGED Data
           ELSE Commit(createEngagedNode(State, ui.hx, ui.hy, d),
                       IF ui.handler = "click" THEN "engage" ELSE "change",
                       ui.hx, ui.hy, d)

\* A click on the menu's "delete": state.deactivate(), then
\* deleteNode(node.x, node.y).
ClickDelete ==
    /\ Shown("menu")
    /\ ops < MaxUiOps
    /\ ui' = [deactivate(Fresh, "") EXCEPT !.log = << >>]
    /\ Commit(deleteNode(State, ui.mx, ui.my), "remove", ui.mx, ui.my, Undefined)

\* <esc>: the UI element shown last is hidden.
Escape ==
    /\ Len(ui.active) > 0
    /\ ui' = [deactivate(Fresh, ui.active[Len(ui.active)]) EXCEPT !.log = << >>]
    /\ UNCHANGED Data

\* A click off the UI elements: all are hidden.
ClickOff ==
    /\ ui' = [deactivate(Fresh, "") EXCEPT !.log = << >>]
    /\ UNCHANGED Data

UiStart == Start /\ ui' = ui

UiInit == Init /\ rev = "part_000"

UiNext ==
    /\ UiStart \/ ClickSingle \/ ClickEngaged \/ ClickChange \/ PickShape
          \/ ClickDelete \/ Escape \/ ClickOff
    /\ calls' = calls
    /\ anim' = anim

\* part_000 driven by the events of its user interface.
UiSpec == UiInit /\ [][UiNext]_vars

(* ------------- U.state (part_000) and U.ui (part_001) called ---------- *)

\* The call made, and the stack and the displays before it.
Called(U, op, name, master) ==
    [U EXCEPT !.call = [op |-> op, name |-> name, master |-> master],
              !.before = [active |-> ui.active, display |-> ui.display]]

\* The names registered with add: part_000 registers the shapes and the
\* menu, part_001 the shapes only.
Registered == IF rev = "part_000" THEN Names ELSE {"shapes"}

\* state.activate(name, {master: master}), in part_001 ui.show.
StateActivate ==
    \E name \in Registered, master \in Names \cup {""} :
        LET U == IF rev = "part_000" THEN activate(Fresh, name, master)
                 ELSE show(Fresh, name, master)
        IN  /\ Len(U.active) <= MaxStack
            /\ ui' = Called(U, "activate", name, master)
            /\ UNCHANGED Data

\* state.deactivate(name), in part_001 ui.hide.
StateDeactivate ==
    \E name \in IF rev = "part_000" THEN Names \cup {""} ELSE Registered :
        /\ ui' = Called(IF rev = "part_000" THEN deactivate(Fresh, name)
                        ELSE hide(Fresh, name), "deactivate", name, "")
        /\ UNCHANGED Data

\* <esc>
StateEscape ==
    /\ Len(ui.active) > 0
    /\ ui' = Called(IF rev = "part_000"
                    THEN deactivate(Fresh, ui.active[Len(ui.active)])
                    ELSE hide(Fresh, ui.active[Len(ui.active)]),
                    "escape", ui.active[Len(ui.active)], "")
    /\ UNCHANGED Data

\* A click off the UI elements.
StateClickOff ==
    /\ ui' = Called(IF rev = "part_000" THEN deactivate(Fresh, "") ELSE hide(Fresh, ""),
                    "clickoff", "", "")
    /\ UNCHANGED Data

StateInit == Init /\ rev \in {"part_000", "part_001"}

StateNext ==
    /\ StateActivate \/ StateDeactivate \/ StateEscape \/ StateClickOff
    /\ calls' = calls
    /\ anim' = anim

\* The UI state machine under every sequence of calls and events.
StateSpec == StateInit /\ [][StateNext]_vars

(* --------------------- Canvas.prototype.animate ----------------------- *)

FalseEntry == [kind |-> "false", id |-> 0, i |-> 0]

UndefinedEntry == [kind |-> "undefined", id |-> 0, i |-> 0]

\* queue[k], k counted from 0 as in the code.
queueAt(A, k) == IF k + 1 <= Len(A.queue) THEN A.queue[k + 1] ELSE UndefinedEntry

\* The function stored in the queue is called:
\* element.animate(animation, time, queue[i + 1]), queue being the array
\* that the closure's variable holds at the time of the call.
runEntry(A, f) ==
    [A EXCEPT !.started = Append(@, f.id),
              !.running = @ \cup {[id |-> f.id, cb |-> queueAt(A, f.i + 1)]}]

\* runEntry that takes the callback from the function's own chain: the next
\* animation of the chain, if there is one.
runEntry_OwnChain(A, f) ==
    LET c == A.chain[f.id]
        nxt == {k \in 1..Len(A.chain) :
                    A.chain[k] = [c |-> c.c, k |-> c.k + 1]}
    IN  [A EXCEPT !.started = Append(@, f.id),
                  !.running = @ \cup
                      {[id |-> f.id,
                        cb |-> IF nxt = {} THEN FalseEntry
                               ELSE [kind |-> "fn", id |-> CHOOSE k \in nxt : TRUE,
                                     i |-> f.i + 1]]}]

\* animate(element, animation, time): i = queue.length - 1;
\* queue[i] = function () {...}; queue[i + 1] = false.
animate(A) ==
    LET i == Len(A.queue) - 1
        id == Len(A.chain) + 1
    IN  [A EXCEPT !.queue = Append([@ EXCEPT ![i + 1] =
                                       [kind |-> "fn", id |-> id, i |-> i]],
                                   FalseEntry),
                  !.chain = Append(@, [c |-> A.ended + 1, k |-> i + 1])]

\* animate(): queue[0](); queue = [null].  With nothing registered queue[0]
\* is null and the call throws a TypeError.
animateEnd(A) ==
    IF queueAt(A, 0).kind # "fn"
    THEN [A EXCEPT !.threw = TRUE]
    ELSE [runEntry(A, queueAt(A, 0)) EXCEPT
              !.queue = NoAnim.queue, !.ended = @ + 1]

\* c.animate(element, animation, time)
AnimCall ==
    /\ Len(anim.chain) < MaxAnims
    /\ anim' = animate(anim)

\* c.animate()
AnimEnd == anim' = animateEnd(anim)

\* createSingleNode: c.animate(newNode.shape, {r: 10.5}, 110).
\*     animate(newNode.shape, {r: 6.5}, 140).animate();
AnimPop ==
    /\ Len(anim.chain) + 2 <= MaxAnims
    /\ anim' = animateEnd(animate(animate(anim)))

\* An animation under way completes and the drawing library calls the
\* callback it was given with it, if that is a function.
AnimDone ==
    \E r \in anim.running :
        LET A == [anim EXCEPT !.running = @ \ {r}, !.done = @ \cup {r.id}]
        IN  anim' = IF r.cb.kind = "fn" THEN runEntry(A, r.cb) ELSE A

AnimInit == Init /\ rev \in {"part_000", "part_001"}

AnimNext ==
    /\ AnimCall \/ AnimEnd \/ AnimPop \/ AnimDone
    /\ UNCHANGED <<Data, ui, calls>>

\* Canvas.prototype.animate called in every order, the animations started
\* completing at any time between the calls.
AnimSpec == AnimInit /\ [][AnimNext]_vars

(* ----------------------------- properties ----------------------------- *)

\* The state after the last operation, and the node (if any) at (x, y) in S.
Cur == [State EXCEPT !.err = err, !.view = view]

At(S, x, y) == CellOrUndef(S.grid, x, y)

KindAt(S, x, y) == IF At(S, x, y) = Undefined THEN "absent" ELSE Kind(S.heap[At(S, x, y)])

\* The descriptor a node carries: shapePath, or in part_002 the Shape.
Descriptor(obj) == IF "shapePath" \in DOMAIN obj THEN obj.shapePath ELSE obj.shape

Dirs == 1..4

\* North, east, south, west.
Offsets == <<(<<0, 1>>), (<<1, 0>>), (<<0, -1>>), (<<-1, 0>>)>>

\* The cardinal neighbour of (x, y) in direction D.
Nb(x, y, D) == <<x + Offsets[D][1], y + Offsets[D][2]>>

\* The node two steps from (x, y) in direction D and the two diagonals of
\* (x, y) adjacent to D.
Lookahead(x, y, D) ==
    LET dx == Offsets[D][1]
        dy == Offsets[D][2]
    IN  {<<x + 2 * dx, y + 2 * dy>>,
         <<x + dx + dy, y + dy + dx>>,
         <<x + dx - dy, y + dy - dx>>}

\* The occupied coordinates of S.
Nodes(S) == UNION {{<<x, y>> : y \in DOMAIN S.grid[x]} : x \in DOMAIN S.grid}

\* The revisions with a node array and bounds.
Closure == rev # "part_002"

\* C1. Gateway preservation: after a Remove of the Engaged node at (x, y)
\* (deleteNode, or CanvasController.undraw in part_002),
\* every Single cardinal neighbour N_D that has a surviving Engaged node two
\* steps from (x, y) in direction D or at a diagonal of (x, y) adjacent to D is
\* still in the grid, the same Single node as before.
C1_GatewayPreservation ==
    last.op = "remove" =>
        \A D \in Dirs :
            LET n == Nb(last.x, last.y, D)
            IN  (/\ KindAt(prev, n[1], n[2]) = "single"
                 /\ \E e \in Lookahead(last.x, last.y, D) : KindAt(Cur, e[1], e[2]) = "engaged")
                => /\ err = "none"
                   /\ At(Cur, n[1], n[2]) = At(prev, n[1], n[2])
                   /\ KindAt(Cur, n[1], n[2]) = "single"

\* A Remove has kept a Single neighbour whose only Engaged neighbour is the
\* node two steps from the removed coordinate.
C1_Witness ==
    /\ last.op = "remove"
    /\ \E D \in Dirs :
          LET n == Nb(last.x, last.y, D)
              two == <<2 * n[1] - last.x, 2 * n[2] - last.y>>
          IN  /\ KindAt(prev, n[1], n[2]) = "single"
              /\ At(Cur, n[1], n[2]) = At(prev, n[1], n[2])
              /\ KindAt(Cur, two[1], two[2]) = "engaged"
              /\ \A e \in Lookahead(last.x, last.y, D) \ {two} :
                    KindAt(Cur, e[1], e[2]) # "engaged"

C3_OrphanRemoval ==
    last.op = "remove" =>
        \A D \in Dirs :
            LET n == Nb(last.x, last.y, D)
            IN  (/\ KindAt(prev, n[1], n[2]) = "single"
                 /\ \A e \in Lookahead(last.x, last.y, D) : KindAt(prev, e[1], e[2]) # "engaged")
                => /\ err = "none"
                   /\ At(Cur, n[1], n[2]) = Undefined
                   /\ At(prev, n[1], n[2]) \notin DOMAIN heap

\* A Remove has deleted one Single neighbour and kept another.
C3_Witness ==
    /\ last.op = "remove"
    /\ \E D \in Dirs :
          /\ KindAt(prev, Nb(last.x, last.y, D)[1], Nb(last.x, last.y, D)[2]) = "single"
          /\ KindAt(Cur, Nb(last.x, last.y, D)[1], Nb(last.x, last.y, D)[2]) = "absent"
    /\ \E D \in Dirs :
          /\ KindAt(prev, Nb(last.x, last.y, D)[1], Nb(last.x, last.y, D)[2]) = "single"
          /\ KindAt(Cur, Nb(last.x, last.y, D)[1], Nb(last.x, last.y, D)[2]) = "single"

\* The four cardinal neighbours of (x, y), as a set.
NbSet(x, y) == {Nb(x, y, D) : D \in Dirs}

\* The fields of a node object other than its place on the canvas.
Fields(obj) == IF Closure THEN [obj EXCEPT !.pos = <<0, 0>>] ELSE obj

\* C4. No overwrite: a Create (createSingleNode, or Canvas.add of a new Node
\* in part_002) at an occupied coordinate is a silent no-op.
\* The Creates of an Engage leave every neighbour that was already there the
\* same node with the same fields (its place on the canvas aside, which moves
\* with the bounds), extend the node list only by the nodes
\* that were missing, and raise no error; and a Create at any occupied
\* coordinate of the state reached changes nothing.
C4_NoOverwrite ==
    /\ last.op \in {"engage", "change"} =>
          /\ err = "none"
          /\ \A n \in NbSet(last.x, last.y) :
                At(prev, n[1], n[2]) # Undefined =>
                    /\ At(Cur, n[1], n[2]) = At(prev, n[1], n[2])
                    /\ Fields(heap[At(Cur, n[1], n[2])]) =
                            Fields(prev.heap[At(prev, n[1], n[2])])
          /\ Closure => Len(node) = Len(prev.node) +
                Cardinality({n \in NbSet(last.x, last.y) : At(prev, n[1], n[2]) = Undefined})
    /\ \A c \in Nodes(Cur) :
          IF Closure
          THEN createSingleNode(Cur, c[1], c[2]) = Cur
          ELSE Collect(canvasAddNew(Cur, c[1], c[2])) = Cur

\* An Engage whose fan-out met an Engaged neighbour and a Single neighbour
\* already in place.
C4_Witness ==
    /\ last.op = "engage"
    /\ \E n \in NbSet(last.x, last.y) : KindAt(prev, n[1], n[2]) = "engaged"
    /\ \E n \in NbSet(last.x, last.y) : KindAt(prev, n[1], n[2]) = "single"

\* C5. Fan-out completeness: after Engage(x, y, d) on an existing node the
\* node at (x, y) is that node, Engaged, with descriptor d; nodes exist at all
\* four cardinal neighbours; each neighbour that was absent is a new Single
\* node and each that existed is the same node in the same state.
C5_FanOut ==
    last.op \in {"engage", "change"} =>
        /\ err = "none"
        /\ At(Cur, last.x, last.y) = At(prev, last.x, last.y)
        /\ KindAt(Cur, last.x, last.y) = "engaged"
        /\ Descriptor(heap[At(Cur, last.x, last.y)]) = last.d
        /\ \A n \in NbSet(last.x, last.y) :
              IF At(prev, n[1], n[2]) = Undefined
              THEN /\ KindAt(Cur, n[1], n[2]) = "single"
                   /\ At(Cur, n[1], n[2]) \notin DOMAIN prev.heap
                   /\ Descriptor(heap[At(Cur, n[1], n[2])]) = Undefined
              ELSE /\ At(Cur, n[1], n[2]) = At(prev, n[1], n[2])
                   /\ KindAt(Cur, n[1], n[2]) = KindAt(prev, n[1], n[2])

\* An Engage of a Single node that created some neighbours and found the
\* others in place.
C5_Witness ==
    /\ last.op = "engage"
    /\ KindAt(prev, last.x, last.y) = "single"
    /\ \E n \in NbSet(last.x, last.y) : KindAt(prev, n[1], n[2]) = "absent"
    /\ \E n \in NbSet(last.x, last.y) : KindAt(prev, n[1], n[2]) # "absent"

\* C6. Index integrity: the node list holds every live node exactly once, at
\* the position the node's id names, with no gaps.
C6_IndexIntegrity ==
    Closure =>
    /\ \A i \in 1..Len(node) : node[i] \in DOMAIN heap /\ heap[node[i]].id = i - 1
    /\ \A u \in DOMAIN heap : \E i \in 1..Len(node) : node[i] = u
    /\ Len(node) = Cardinality(DOMAIN heap)

\* A Remove whose Engaged node was the last element of the node list and that
\* removed several nodes.
C6_Witness ==
    /\ rev = "part_000"
    /\ last.op = "remove"
    /\ prev.heap[At(prev, last.x, last.y)].id = Len(prev.node) - 1
    /\ Len(node) + 2 <= Len(prev.node)

\* The maximum and minimum of a set of integers, 0 for the empty set.
MaxOr0(S) == IF S = {} THEN 0 ELSE CHOOSE m \in S : \A k \in S : k <= m

MinOr0(S) == IF S = {} THEN 0 ELSE CHOOSE m \in S : \A k \in S : m <= k

\* The extent of the occupied coordinates of S in each direction.
Extent(S) ==
    [north |-> MaxOr0({c[2] : c \in Nodes(S)}), east |-> MaxOr0({c[1] : c \in Nodes(S)}),
     south |-> -MinOr0({c[2] : c \in Nodes(S)}), west |-> -MinOr0({c[1] : c \in Nodes(S)})]

\* C7. Bound correctness after removal: after a Remove (deleteNode), north = max(y),
\* east = max(x), south = -min(y) and west = -min(x) over the surviving nodes.
C7_BoundAfterRemove ==
    (rev = "part_000" /\ last.op = "remove") => err = "none" /\ bound = Extent(Cur)

\* A Remove that shrank one bound by two units and left another as it was.
C7_Witness ==
    /\ rev = "part_000"
    /\ last.op = "remove"
    /\ \E dir \in DOMAIN bound : bound[dir] + 2 <= prev.bound[dir]
    /\ \E dir \in DOMAIN bound : bound[dir] = prev.bound[dir] /\ bound[dir] > 0

\* The bounds as extents: part_001 and untangly.js keep south and west as
\* negative numbers, part_000 as the distance from the origin.
Extents(b) ==
    IF rev \in {"part_001", "untangly"}
    THEN [north |-> b.north, east |-> b.east, south |-> -b.south, west |-> -b.west]
    ELSE b

\* The bounds that (x, y) lies beyond in S.
Beyond(S, x, y) ==
    {dir \in DOMAIN S.bound :
        \/ dir = "north" /\ y > Extents(S.bound).north
        \/ dir = "east" /\ x > Extents(S.bound).east
        \/ dir = "south" /\ y < -Extents(S.bound).south
        \/ dir = "west" /\ x < -Extents(S.bound).west}

\* One Create at (x, y) in S moves the bounds as C8 says.
CreateStepOK(S, x, y) ==
    LET T == createSingleNode(S, x, y)
    IN  IF At(S, x, y) # Undefined
        THEN T.bound = S.bound
        ELSE /\ Cardinality(Beyond(S, x, y)) <= 1
             /\ \A dir \in DOMAIN S.bound :
                   Extents(T.bound)[dir] =
                       Extents(S.bound)[dir] + (IF dir \in Beyond(S, x, y) THEN 1 ELSE 0)

RECURSIVE CreateChainOK(_, _, _)
CreateChainOK(S, cs, k) ==
    \/ k > Len(cs)
    \/ /\ CreateStepOK(S, cs[k][1], cs[k][2])
       /\ CreateChainOK(createSingleNode(S, cs[k][1], cs[k][2]), cs, k + 1)

\* C8. Bound step on insert: every Create of the last operation (the origin's,
\* the four of an Engage's fan-out, the re-creation inside a Remove), taken in
\* the state it was issued in, raised exactly the one bound the new node lay
\* beyond by exactly 1, and no bound if the node lay within the bounds or the
\* coordinate was occupied.
C8_BoundStep ==
    Closure =>
    /\ last.op = "start" => CreateStepOK(prev, 0, 0)
    /\ last.op \in {"engage", "change"} =>
          CreateChainOK(engageSelected(prev, last.x, last.y, last.d),
                        FanOut(last.x, last.y), 1)
    /\ last.op = "remove" => CreateStepOK(unlinkNode(prev, last.x, last.y), last.x, last.y)

\* An Engage, in a grid whose origin is gone, whose fan-out raised a negative
\* west bound by one.
C8_Witness ==
    /\ last.op = "engage"
    /\ prev.bound.west < 0
    /\ bound.west = prev.bound.west + 1
    /\ bound.north = prev.bound.north + 1

\* C9. Replacement at the removed coordinate: after deleteNode at (x, y) a fresh
\* Single node is at (x, y) if and only if a cardinal neighbour was Engaged
\* or no other node is left; otherwise (x, y) is absent.
C9_Replacement ==
    (rev = "part_000" /\ last.op = "remove") =>
        /\ KindAt(Cur, last.x, last.y) \in {"single", "absent"}
        /\ At(Cur, last.x, last.y) # At(prev, last.x, last.y)
        /\ KindAt(Cur, last.x, last.y) = "single"
            <=> \/ \E n \in NbSet(last.x, last.y) : KindAt(prev, n[1], n[2]) = "engaged"
                \/ Nodes(Cur) \ {<<last.x, last.y>>} = {}

\* A Remove of a node with four Single neighbours, with other nodes left:
\* nothing is at the removed coordinate.
C9_Witness ==
    /\ rev = "part_000"
    /\ last.op = "remove"
    /\ KindAt(Cur, last.x, last.y) = "absent"
    /\ \A n \in NbSet(last.x, last.y) : KindAt(prev, n[1], n[2]) = "single"
    /\ Nodes(Cur) # {}

\* C10, as claimed. Origin invariant: a grid that holds a node holds a node at
\* (0, 0).
C10_OriginInvariant == Nodes(Cur) # {} => At(Cur, 0, 0) # Undefined

\* C10, amended. The node at the origin, once created, goes only in a Remove
\* whose coordinate is the origin or a cardinal neighbour of it, and only when
\* no Engaged node is next to the origin afterwards; Start, Engage and
\* ChangeShape never remove it.
C10_OriginLeavesOnlyInRemove ==
    /\ last.op = "start" => At(Cur, 0, 0) # Undefined
    /\ (At(prev, 0, 0) # Undefined /\ At(Cur, 0, 0) = Undefined) =>
          /\ last.op = "remove"
          /\ <<0, 0>> \in NbSet(last.x, last.y) \cup {<<last.x, last.y>>}
          /\ \A n \in NbSet(0, 0) : KindAt(Cur, n[1], n[2]) # "engaged"

\* A Remove has deleted the node at the origin and left a node elsewhere.
C10_Witness ==
    /\ last.op = "remove"
    /\ At(prev, 0, 0) # Undefined
    /\ At(Cur, 0, 0) = Undefined
    /\ Nodes(Cur) # {}

\* C11, as claimed. Bound non-negativity (part_000): all four bounds are
\* greater than or equal to 0 in every reachable state.
C11_BoundNonNegative ==
    rev = "part_000" => \A dir \in DOMAIN bound : bound[dir] >= 0

\* C11, amended. In part_000 every bound is an integer recorded as units from
\* the origin: once the origin node has been created, a bound is greater than
\* or equal to 0 exactly when some node lies on the origin's row or column or
\* beyond it in that direction, and negative when every node lies strictly on
\* the other side of the origin.
C11_BoundSign ==
    (rev = "part_000" /\ last.op # "init") =>
        /\ \A dir \in DOMAIN bound : bound[dir] \in Int
        /\ bound.north >= 0 <=> \E c \in Nodes(Cur) : c[2] >= 0
        /\ bound.east >= 0 <=> \E c \in Nodes(Cur) : c[1] >= 0
        /\ bound.south >= 0 <=> \E c \in Nodes(Cur) : c[2] <= 0
        /\ bound.west >= 0 <=> \E c \in Nodes(Cur) : c[1] <= 0

\* A Remove has left every surviving node strictly on one side of the origin,
\* and a bound is negative.
C11_Witness ==
    /\ rev = "part_000"
    /\ last.op = "remove"
    /\ Nodes(Cur) # {}
    /\ \/ \A c \in Nodes(Cur) : c[1] < 0
       \/ \A c \in Nodes(Cur) : c[1] > 0
       \/ \A c \in Nodes(Cur) : c[2] < 0
       \/ \A c \in Nodes(Cur) : c[2] > 0
    /\ \E dir \in DOMAIN bound : bound[dir] < 0

\* The last operation left the grid, the node list, every node and the bounds
\* as they were and raised no error.
Unchanged ==
    /\ err = "none"
    /\ grid = prev.grid
    /\ node = prev.node
    /\ heap = prev.heap
    /\ bound = prev.bound

\* C12. Remove on a Single node is rejected without mutation: deleteNode
\* called for a Single node removes and creates no node, leaves the node list
\* and the bounds unchanged and does not fail.
C12_RemoveSingleRejected == last.op = "removeSingle" => Unchanged

\* C13. Invalid Engage is rejected without mutation: createEngagedNode called
\* for a coordinate with no node, or for a node that is already Engaged,
\* leaves the grid, the node list, every node's state and descriptor and the
\* bounds unchanged and throws nothing.
C13_InvalidEngageRejected ==
    (rev = "part_000" /\ last.op \in {"engageAbsent", "change"}) => Unchanged

\* The Node at (x, y) in S has a Shape.
HasShape(S, x, y) == At(S, x, y) # Undefined /\ S.heap[At(S, x, y)].shape # Undefined

\* C14. CanvasController.remove(n), for a Node n of the grid, removes n from
\* the grid if and only if n has no Shape and no Node at a cardinal neighbour
\* of n has a Shape; otherwise the grid is unchanged; every other Node stays
\* as it was and no error is raised, absent neighbours and absent columns
\* included.
C14_ControllerRemove ==
    (rev = "part_002" /\ last.op = "controllerRemove") =>
        LET removable ==
                /\ ~HasShape(prev, last.x, last.y)
                /\ \A n \in NbSet(last.x, last.y) : ~HasShape(prev, n[1], n[2])
        IN  /\ err = "none"
            /\ Nodes(Cur) = IF removable THEN Nodes(prev) \ {<<last.x, last.y>>}
                                         ELSE Nodes(prev)
            /\ \A c \in Nodes(Cur) :
                  /\ At(Cur, c[1], c[2]) = At(prev, c[1], c[2])
                  /\ heap[At(Cur, c[1], c[2])] = prev.heap[At(prev, c[1], c[2])]

\* CanvasController.remove has removed a Node that had one neighbour in a
\* column that was never created and another absent from a column that exists.
C14_Witness ==
    /\ rev = "part_002"
    /\ last.op = "controllerRemove"
    /\ At(prev, last.x, last.y) # Undefined
    /\ At(Cur, last.x, last.y) = Undefined
    /\ \E n \in NbSet(last.x, last.y) : ~HasCol(prev.grid, n[1])
    /\ \E n \in NbSet(last.x, last.y) :
          HasCol(prev.grid, n[1]) /\ At(prev, n[1], n[2]) = Undefined

\* C15. CanvasController.undraw(n) for a Node n of the grid with a Shape, in a
\* grid that holds n's four cardinal neighbours: n is still stored at its own
\* coordinate, the same Node object, with no Shape, and no error is raised.
C15_UndrawKeepsNode ==
    (/\ rev = "part_002"
     /\ last.op = "remove"
     /\ \A n \in NbSet(last.x, last.y) : At(prev, n[1], n[2]) # Undefined)
    => /\ err = "none"
       /\ At(Cur, last.x, last.y) = At(prev, last.x, last.y)
       /\ At(Cur, last.x, last.y) # Undefined
       /\ heap[At(Cur, last.x, last.y)].shape = Undefined

\* An undraw of a Node whose four neighbours existed has removed one of them
\* and kept another.
C15_Witness ==
    /\ rev = "part_002"
    /\ last.op = "remove"
    /\ HasShape(prev, last.x, last.y)
    /\ \A n \in NbSet(last.x, last.y) : At(prev, n[1], n[2]) # Undefined
    /\ \E n \in NbSet(last.x, last.y) : At(Cur, n[1], n[2]) = Undefined
    /\ \E n \in NbSet(last.x, last.y) : At(Cur, n[1], n[2]) # Undefined

\* C16. No in-place reversal (the revisions with a node list): a node object
\* that is Engaged before an operation is Engaged after it or is gone from
\* the grid and the node list; it goes only in the Remove at its coordinate,
\* and a Single node found at that coordinate afterwards is a new object.
C16_NoInPlaceReversal ==
    Closure =>
        \A u \in DOMAIN prev.heap :
            prev.heap[u].type = "engaged" =>
                IF u \in DOMAIN heap
                THEN /\ heap[u].type = "engaged"
                     /\ At(Cur, heap[u].x, heap[u].y) = u
                ELSE /\ last.op = "remove"
                     /\ <<last.x, last.y>> = <<prev.heap[u].x, prev.heap[u].y>>
                     /\ \A i \in 1..Len(node) : node[i] # u
                     /\ At(Cur, last.x, last.y) # u
                     /\ At(Cur, last.x, last.y) # Undefined =>
                           /\ At(Cur, last.x, last.y) \notin DOMAIN prev.heap
                           /\ KindAt(Cur, last.x, last.y) = "single"

\* A Remove has left a new Single node at the coordinate of the Engaged node
\* it deleted, next to an Engaged node that stays.
C16_Witness ==
    /\ rev = "part_000"
    /\ last.op = "remove"
    /\ KindAt(prev, last.x, last.y) = "engaged"
    /\ KindAt(Cur, last.x, last.y) = "single"
    /\ At(prev, last.x, last.y) \notin DOMAIN heap
    /\ \E n \in NbSet(last.x, last.y) : KindAt(Cur, n[1], n[2]) = "engaged"

\* The removed coordinate of the last operation and its cardinal neighbours.
Touched == NbSet(last.x, last.y) \cup {<<last.x, last.y>>}

\* C17. Remove frame: a Remove of the Engaged node at (x, y) (deleteNode, or
\* CanvasController.undraw in part_002) changes the grid only at (x, y) and at
\* its four cardinal neighbours; every node elsewhere, and every Engaged
\* neighbour, is the same node with the same state and descriptor afterwards.
C17_RemoveFrame ==
    last.op = "remove" =>
        /\ Nodes(Cur) \ Touched = Nodes(prev) \ Touched
        /\ \A c \in Nodes(prev) :
              (c \notin Touched \/ (c # <<last.x, last.y>> /\ KindAt(prev, c[1], c[2]) = "engaged"))
              => /\ At(Cur, c[1], c[2]) = At(prev, c[1], c[2])
                 /\ KindAt(Cur, c[1], c[2]) = KindAt(prev, c[1], c[2])
                 /\ Descriptor(heap[At(Cur, c[1], c[2])]) =
                        Descriptor(prev.heap[At(prev, c[1], c[2])])

\* A Remove next to an Engaged neighbour that has no Engaged neighbour of its
\* own afterwards, with nodes beyond the removed node's neighbours.
C17_Witness ==
    /\ rev = "part_000"
    /\ last.op = "remove"
    /\ Nodes(prev) \ Touched # {}
    /\ \E n \in NbSet(last.x, last.y) :
          /\ KindAt(prev, n[1], n[2]) = "engaged"
          /\ \A m \in NbSet(n[1], n[2]) : KindAt(Cur, m[1], m[2]) # "engaged"

\* C18. Deleting at a coordinate that holds no node is a no-op: Canvas.remove
\* for a Node whose coordinate is empty, a coordinate in a column that was
\* never created included, raises no error and leaves the grid unchanged.
C18_RemoveAbsentNoop ==
    (rev = "part_002" /\ last.op = "canvasRemove" /\ At(prev, last.x, last.y) = Undefined)
    => /\ err = "none"
       /\ Nodes(Cur) = Nodes(prev)
       /\ \A c \in Nodes(Cur) : At(Cur, c[1], c[2]) = At(prev, c[1], c[2])

\* C19. Missing neighbours are tolerated: a Remove of an Engaged node
\* (deleteNode, or CanvasController.undraw in part_002) raises no error,
\* whatever coordinates and columns around the candidates for removal hold no
\* node.
C19_MissingNeighboursTolerated == last.op = "remove" => err = "none"

\* A Remove has tested a Single neighbour whose own neighbours include an
\* empty cell and a cell of a column that was never created.
C19_Witness ==
    /\ last.op = "remove"
    /\ err = "none"
    /\ \E D \in Dirs :
          /\ KindAt(prev, Nb(last.x, last.y, D)[1], Nb(last.x, last.y, D)[2]) = "single"
          /\ \E e \in Lookahead(last.x, last.y, D) : ~HasCol(prev.grid, e[1])
          /\ \E e \in Lookahead(last.x, last.y, D) :
                HasCol(prev.grid, e[1]) /\ At(prev, e[1], e[2]) = Undefined

\* C20. Descriptor iff Engaged (part_000): a live node carries path data if
\* and only if its type is "engaged"; every Single node, one re-created at
\* the coordinate of a removed Engaged node included, carries none.
C20_DescriptorIffEngaged ==
    rev = "part_000" =>
        /\ \A u \in DOMAIN heap :
              /\ heap[u].type \in {"single", "engaged"}
              /\ heap[u].shapePath # Undefined <=> heap[u].type = "engaged"
              /\ heap[u].shapePath # Undefined => heap[u].shapePath \in Shapes
        /\ (last.op = "remove" /\ At(Cur, last.x, last.y) # Undefined) =>
              heap[At(Cur, last.x, last.y)].shapePath = Undefined

\* A Remove has re-created a Single node at the removed coordinate, next to
\* an Engaged node.
C20_Witness ==
    /\ rev = "part_000"
    /\ last.op = "remove"
    /\ prev.heap[At(prev, last.x, last.y)].shapePath \in Shapes
    /\ KindAt(Cur, last.x, last.y) = "single"
    /\ heap[At(Cur, last.x, last.y)].shapePath = Undefined
    /\ \E u \in DOMAIN heap : heap[u].type = "engaged" /\ heap[u].shapePath \in Shapes

\* The four cardinal neighbours of (x, y): north, east, south, west.
NbSeq(x, y) == [D \in 1..4 |-> Nb(x, y, D)]

\* A Create at (x, y) in S, if the coordinate is free, lands beyond at most
\* one bound, and at most one unit beyond it.
CreateNear(S, x, y) ==
    At(S, x, y) # Undefined \/
        /\ Cardinality(Beyond(S, x, y)) <= 1
        /\ y <= Extents(S.bound).north + 1
        /\ x <= Extents(S.bound).east + 1
        /\ y >= -Extents(S.bound).south - 1
        /\ x >= -Extents(S.bound).west - 1

RECURSIVE CreateChainNear(_, _, _)
CreateChainNear(S, cs, k) ==
    \/ k > Len(cs)
    \/ /\ CreateNear(S, cs[k][1], cs[k][2])
       /\ CreateChainNear(createSingleNode(S, cs[k][1], cs[k][2]), cs, k + 1)

\* C21. Incremental bounds are exact: after the origin's Create and after every
\* Engage, each bound equals the extent of the occupied coordinates in its
\* direction, and every Create of the operation, in the state it was issued
\* in, landed at most one unit beyond at most one bound.
C21_IncrementalBoundsExact ==
    (Closure /\ last.op \in {"start", "engage", "change"}) =>
        /\ err = "none"
        /\ Extents(bound) = Extent(Cur)
        /\ last.op = "start" => CreateNear(prev, 0, 0)
        /\ last.op \in {"engage", "change"} =>
              CreateChainNear(engageSelected(prev, last.x, last.y, last.d),
                              NbSeq(last.x, last.y), 1)

\* In part_001, where no Remove exists, an Engage that took the west bound to
\* -2 and the north bound to 1.
C21_Witness ==
    /\ rev = "part_001"
    /\ last.op = "engage"
    /\ bound.west = -2
    /\ prev.bound.west = -1
    /\ bound.north = 1

\* No bound of b2, read as an extent, is smaller than it is in b1.
NoDecrease(b1, b2) == \A dir \in DOMAIN b1 : Extents(b1)[dir] <= Extents(b2)[dir]

RECURSIVE CreateChainMonotone(_, _, _)
CreateChainMonotone(S, cs, k) ==
    \/ k > Len(cs)
    \/ /\ NoDecrease(S.bound, createSingleNode(S, cs[k][1], cs[k][2]).bound)
       /\ CreateChainMonotone(createSingleNode(S, cs[k][1], cs[k][2]), cs, k + 1)

\* C22. Bound monotonicity: no bound decreases across the origin's Create,
\* across any Create of an Engage's fan-out, or across a Remove up to its call
\* of adjustBound(); a bound that is smaller after an operation is smaller
\* after a Remove, whose last step recomputes the bounds from the nodes.
C22_BoundMonotone ==
    Closure =>
    /\ last.op = "start" => NoDecrease(prev.bound, bound)
    /\ last.op \in {"engage", "change"} =>
          /\ CreateChainMonotone(engageSelected(prev, last.x, last.y, last.d),
                                 NbSeq(last.x, last.y), 1)
          /\ NoDecrease(prev.bound, bound)
    /\ last.op = "remove" =>
          NoDecrease(prev.bound, cleanNode(prev, last.x, last.y).bound)
    /\ (\E dir \in DOMAIN bound : Extents(bound)[dir] < Extents(prev.bound)[dir]) =>
          last.op = "remove"

\* A Remove that deleted nodes and left the bounds as they were up to its
\* recomputation, which took a bound down.
C22_Witness ==
    /\ rev = "part_000"
    /\ last.op = "remove"
    /\ Len(cleanNode(prev, last.x, last.y).node) < Len(prev.node)
    /\ cleanNode(prev, last.x, last.y).bound = prev.bound
    /\ \E dir \in DOMAIN bound : bound[dir] < prev.bound[dir]

\* The move of the nodes on the canvas when bound dir grows by one unit.
Shift(dir) ==
    IF dir = "north" THEN <<0, 1>> ELSE IF dir = "west" THEN <<1, 0>> ELSE <<0, 0>>

\* One Create at the free coordinate (x, y) in S: if (x, y) lay beyond a
\* bound the canvas was resized once, to the size of the updated bounds, and
\* every node of the list was moved once; otherwise nothing was resized or
\* moved.  The new node stands where the updated bounds put (x, y), and is
\* the last of the list.
CreatePlacedOK(S, x, y) ==
    LET T == createSingleNode(S, x, y)
        B == Beyond(S, x, y)
        u == At(T, x, y)
    IN  At(S, x, y) # Undefined \/
        /\ T.err = "none"
        /\ T.view.resizes = S.view.resizes + (IF B = {} THEN 0 ELSE 1)
        /\ B # {} => /\ T.view.width = Extents(T.bound).west + Extents(T.bound).east
                     /\ T.view.height = Extents(T.bound).north + Extents(T.bound).south
        /\ B = {} => T.view = S.view
        /\ \A i \in 1..Len(S.node) :
              T.heap[S.node[i]].pos =
                  <<S.heap[S.node[i]].pos[1] + (IF B = {} THEN 0 ELSE Shift(CHOOSE d \in B : TRUE)[1]),
                    S.heap[S.node[i]].pos[2] + (IF B = {} THEN 0 ELSE Shift(CHOOSE d \in B : TRUE)[2])>>
        /\ T.heap[u].pos = <<Extents(T.bound).west + x, Extents(T.bound).north - y>>
        /\ T.node = Append(S.node, u)

RECURSIVE CreateChainPlaced(_, _, _)
CreateChainPlaced(S, cs, k) ==
    \/ k > Len(cs)
    \/ /\ CreatePlacedOK(S, cs[k][1], cs[k][2])
       /\ CreateChainPlaced(createSingleNode(S, cs[k][1], cs[k][2]), cs, k + 1)

\* C23. Expansion precedes placement: in every Create of the last operation
\* that expanded a bound, the bound was updated and the canvas resized and the
\* nodes repositioned exactly once, before the new node's place on the canvas
\* was computed and before the node was appended to the node list: the new
\* node stands where the updated bounds put it and was not moved.
C23_ExpansionPrecedesPlacement ==
    Closure =>
    /\ last.op = "start" => CreatePlacedOK(prev, 0, 0)
    /\ last.op \in {"engage", "change"} =>
          CreateChainPlaced(engageSelected(prev, last.x, last.y, last.d),
                            NbSeq(last.x, last.y), 1)
    /\ last.op = "remove" =>
          CreatePlacedOK(unlinkNode(prev, last.x, last.y), last.x, last.y)

\* An Engage in part_000 whose fan-out raised the west bound, which moved the
\* nodes already drawn, and created a second node within the bounds.
C23_Witness ==
    /\ rev = "part_000"
    /\ last.op = "engage"
    /\ Len(prev.node) >= 5
    /\ Len(node) >= Len(prev.node) + 2
    /\ bound.west = prev.bound.west + 1
    /\ view.resizes = 1

\* C24. Engage invariant: every Engaged node has a node present at each of its
\* four cardinal neighbours, and no Remove fails on the read of a neighbour's
\* type.
C24_EngageInvariant ==
    Closure =>
    /\ err = "none"
    /\ \A c \in Nodes(Cur) :
          KindAt(Cur, c[1], c[2]) = "engaged" =>
              \A D \in Dirs : At(Cur, Nb(c[1], c[2], D)[1], Nb(c[1], c[2], D)[2]) # Undefined

\* A Remove, next to an Engaged node that stays, that deleted at least one
\* Single node.
C24_Witness ==
    /\ rev = "part_000"
    /\ last.op = "remove"
    /\ \E D \in Dirs : KindAt(Cur, Nb(last.x, last.y, D)[1], Nb(last.x, last.y, D)[2]) = "engaged"
    /\ Len(node) < Len(prev.node)

\* C25. No floating Single nodes: in every revision, every Single node (in
\* part_002 a Node with no Shape) has at least one Engaged cardinal neighbour,
\* unless it is the only node in the grid.
C25_NoFloatingSingle ==
    \A c \in Nodes(Cur) :
        KindAt(Cur, c[1], c[2]) = "single" =>
            \/ Nodes(Cur) = {c}
            \/ \E D \in Dirs : KindAt(Cur, Nb(c[1], c[2], D)[1], Nb(c[1], c[2], D)[2]) = "engaged"

\* The grid cells of S, as the set of <<x, y, node>>.
GridCells(S) ==
    {<<x, y, S.grid[x][y]>> : <<x, y>> \in
        {c \in UNION {{<<xx, yy>> : yy \in DOMAIN S.grid[xx]} : xx \in DOMAIN S.grid} :
            S.grid[c[1]][c[2]] # Undefined}}

\* C26. Grid and node list agree: every entry n of the node list is the node
\* at grid[n.x][n.y], every occupied grid cell's node is in the list, no node
\* is in the list twice, and every node of the grid sits at its own
\* coordinates, so no two nodes share a coordinate.
C26_GridListAgree ==
    Closure =>
    /\ \A i \in 1..Len(node) :
          /\ node[i] # Undefined
          /\ At(Cur, heap[node[i]].x, heap[node[i]].y) = node[i]
    /\ \A i, j \in 1..Len(node) : node[i] = node[j] => i = j
    /\ \A c \in GridCells(Cur) :
          /\ \E i \in 1..Len(node) : node[i] = c[3]
          /\ heap[c[3]].x = c[1] /\ heap[c[3]].y = c[2]
    /\ Cardinality(GridCells(Cur)) = Len(node)

\* A Remove that deleted a node from the middle of the list and created the
\* replacement at the end.
C26_Witness ==
    /\ rev = "part_000"
    /\ last.op = "remove"
    /\ At(Cur, last.x, last.y) # Undefined
    /\ Len(node) + 2 <= Len(prev.node)
    /\ \E i \in 1..Len(node) : i < Len(prev.node) /\ node[i] # prev.node[i]

\* The occupied coordinates of S with the state and descriptor at each.
Picture(S) ==
    {<<c, KindAt(S, c[1], c[2]), Descriptor(S.heap[At(S, c[1], c[2])])>> : c \in Nodes(S)}

\* createEngagedNode(x, y, d) then deleteNode(x, y), from S.
RoundTrip(S, x, y, d) == deleteNode(createEngagedNode(S, x, y, d), x, y)

\* C27. Engage then Remove is a round trip: from every reachable state and
\* for every Single node at (x, y), createEngagedNode(x, y, d) followed by
\* deleteNode(x, y) raises no error and gives back the same occupied
\* coordinates, the same state and descriptor at each, and the same bounds.
C27_EngageRemoveRoundTrip ==
    rev = "part_000" =>
        \A c \in Nodes(Cur) : \A d \in Shapes :
            KindAt(Cur, c[1], c[2]) = "single" =>
                /\ RoundTrip(Cur, c[1], c[2], d).err = "none"
                /\ Picture(RoundTrip(Cur, c[1], c[2], d)) = Picture(Cur)
                /\ RoundTrip(Cur, c[1], c[2], d).bound = bound

\* A state after a Remove with a Single node whose Engage creates at least
\* two nodes and raises a bound, all of which the Remove takes back.
C27_Witness ==
    /\ rev = "part_000"
    /\ last.op = "remove"
    /\ \E c \in Nodes(Cur) :
          /\ KindAt(Cur, c[1], c[2]) = "single"
          /\ Nodes(Cur) # {c}
          /\ Len(createEngagedNode(Cur, c[1], c[2], 1).node) >= Len(node) + 2
          /\ createEngagedNode(Cur, c[1], c[2], 1).bound # bound
          /\ RoundTrip(Cur, c[1], c[2], 1).bound = bound

\* The Engaged coordinates of S.
EngagedSet(S) == {c \in Nodes(S) : KindAt(S, c[1], c[2]) = "engaged"}

\* Every order of removing the Engaged nodes of S one at a time, after the
\* removal at lastC, raises no error and ends with exactly one node, Single,
\* at the coordinate removed last, with the bounds at that node's extent.
RECURSIVE TeardownOK(_, _)
TeardownOK(S, lastC) ==
    IF EngagedSet(S) = {}
    THEN /\ Nodes(S) = {lastC}
         /\ KindAt(S, lastC[1], lastC[2]) = "single"
         /\ Len(S.node) = 1
         /\ S.bound = [north |-> lastC[2], east |-> lastC[1],
                       south |-> -lastC[2], west |-> -lastC[1]]
    ELSE \A c \in EngagedSet(S) :
            /\ deleteNode(S, c[1], c[2]).err = "none"
            /\ TeardownOK(deleteNode(S, c[1], c[2]), c)

\* C28. Full teardown: from every reachable state with an Engaged node,
\* removing all Engaged nodes one at a time, in every order, ends in a grid
\* with exactly one node, which is Single and sits at the coordinate of the
\* last removed Engaged node, with bounds equal to that node's extent.
C28_FullTeardown ==
    (rev = "part_000" /\ EngagedSet(Cur) # {}) => TeardownOK(Cur, <<0, 0>>)

\* A state with three Engaged nodes, none of them at the origin, reached by a
\* Remove.
C28_Witness ==
    /\ rev = "part_000"
    /\ Cardinality(EngagedSet(Cur)) = 3
    /\ KindAt(Cur, 0, 0) # "engaged"
    /\ TeardownOK(Cur, <<0, 0>>)

\* The orders of n things.
Perms(n) == {p \in [1..n -> 1..n] : \A i, j \in 1..n : p[i] = p[j] => i = j}

\* The sequence s taken in the order p.
Permuted(s, p) == [i \in 1..Len(s) |-> s[p[i]]]

\* The node u is gone from the grid of S.
Deleted(S, u) == \A c \in Nodes(S) : At(S, c[1], c[2]) # u

\* C29. Order independence of cleanup: the grid, the node states and the
\* bounds that a Remove ends with are those that every other order of
\* examining its candidate Single nodes ends with, and the deletion of one
\* candidate does not change whether another is kept or deleted.  In part_002
\* the candidates are the four neighbours undraw hands to remove.
C29_OrderIndependence ==
    /\ (rev = "part_000" /\ last.op = "remove") =>
          LET pushed == collectTests(prev, last.x, last.y)
              n == Len(pushed.test)
          IN  /\ \A p \in Perms(n) :
                    LET F == adjustBoundAll(testLoop(pushed.S, Permuted(pushed.test, p), n))
                    IN  /\ F.err = "none"
                        /\ Picture(F) = Picture(Cur)
                        /\ F.bound = bound
              /\ \A i, j \in 1..n :
                    i # j =>
                        (Deleted(testOne(pushed.S, pushed.test[i]), pushed.test[i])
                         <=> Deleted(testOne(testOne(pushed.S, pushed.test[j]), pushed.test[i]),
                                     pushed.test[i]))
    /\ (rev = "part_002" /\ last.op = "remove") =>
          \A p \in Perms(4) :
              LET F == controllerRemoveEach(
                           [prev EXCEPT !.heap[At(prev, last.x, last.y)].shape = Undefined],
                           Permuted(NbSeq(last.x, last.y), p), 1)
              IN  F.err = "none" /\ Picture(F) = Picture(Cur)

\* A Remove in part_000 with at least three candidates, of which one was
\* deleted and one was kept.
C29_Witness ==
    /\ rev = "part_000"
    /\ last.op = "remove"
    /\ Len(collectTests(prev, last.x, last.y).test) >= 3
    /\ \E D \in Dirs :
          /\ KindAt(prev, Nb(last.x, last.y, D)[1], Nb(last.x, last.y, D)[2]) = "single"
          /\ KindAt(Cur, Nb(last.x, last.y, D)[1], Nb(last.x, last.y, D)[2]) = "absent"
    /\ \E D \in Dirs :
          /\ KindAt(prev, Nb(last.x, last.y, D)[1], Nb(last.x, last.y, D)[2]) = "single"
          /\ KindAt(Cur, Nb(last.x, last.y, D)[1], Nb(last.x, last.y, D)[2]) = "single"

C31_RemoveOnlyAtEngaged ==
    /\ err = "none"
    /\ last.op = "remove" => KindAt(prev, last.x, last.y) = "engaged"

\* A delete chosen in the menu of a node whose shape had been changed through
\* the same menu before, next to an Engaged node that stays.
C31_Witness ==
    /\ last.op = "remove"
    /\ KindAt(prev, last.x, last.y) = "engaged"
    /\ ui.handler = "change"
    /\ <<ui.hx, ui.hy>> = <<last.x, last.y>>
    /\ KindAt(Cur, last.x, last.y) = "single"
    /\ EngagedSet(Cur) # {}

\* createEngagedNode(x, y, d) on the Engaged node at (x, y) of S changes that
\* node's path data and nothing else.
ReEngageOK(S, x, y, d) ==
    LET T == createEngagedNode(S, x, y, d)
        u == At(S, x, y)
    IN  /\ T.err = "none"
        /\ T.grid = S.grid
        /\ T.node = S.node
        /\ T.bound = S.bound
        /\ T.view = S.view
        /\ DOMAIN T.heap = DOMAIN S.heap
        /\ \A v \in DOMAIN S.heap : v # u => T.heap[v] = S.heap[v]
        /\ T.heap[u] = [S.heap[u] EXCEPT !.shapePath = d]
        /\ T.heap[u].type = "engaged"

\* C32. Re-engaging changes only the descriptor: in every reachable state,
\* createEngagedNode on an Engaged node replaces that node's descriptor and
\* leaves the occupied coordinates, every other node, the node list with its
\* order and ids, and the four bounds unchanged; the change-shape operation
\* made last did so.
C32_ReEngageOnlyDescriptor ==
    rev = "part_000" =>
        /\ \A c \in EngagedSet(Cur) : \A d \in Shapes : ReEngageOK(Cur, c[1], c[2], d)
        /\ last.op = "change" =>
              /\ ReEngageOK(prev, last.x, last.y, last.d)
              /\ Picture(Cur) \ {<<(<<last.x, last.y>>), "engaged", last.d>>} =
                    Picture(prev) \ {<<(<<last.x, last.y>>), "engaged",
                                      Descriptor(prev.heap[At(prev, last.x, last.y)])>>}
              /\ node = prev.node /\ bound = prev.bound

\* A change of shape, to another shape, of an Engaged node with an Engaged
\* neighbour.
C32_Witness ==
    /\ rev = "part_000"
    /\ last.op = "change"
    /\ Descriptor(prev.heap[At(prev, last.x, last.y)]) # last.d
    /\ Descriptor(heap[At(Cur, last.x, last.y)]) = last.d
    /\ \E D \in Dirs : KindAt(Cur, Nb(last.x, last.y, D)[1], Nb(last.x, last.y, D)[2]) = "engaged"

\* C33. Display positions track the bounds: after every completed operation
\* each node of the grid is drawn, in grid units, at (bound.west + x,
\* bound.north - y) under the current bounds (the west bound taken as a
\* distance in part_001 and untangly.js, which keep it negative).
C33_PositionsTrackBounds ==
    Closure =>
        \A c \in Nodes(Cur) :
            heap[At(Cur, c[1], c[2])].pos =
                <<Extents(bound).west + c[1], Extents(bound).north - c[2]>>

\* A Remove in part_000 whose recomputation lowered the west bound and moved
\* the five or more nodes that stayed.
C33_Witness ==
    /\ rev = "part_000"
    /\ last.op = "remove"
    /\ bound.west < prev.bound.west
    /\ Len(node) >= 5
    /\ \E i \in 1..Len(node) :
          /\ node[i] \in DOMAIN prev.heap
          /\ prev.heap[node[i]].pos # heap[node[i]].pos

\* The sequence s from its last entry to its first.
Reverse(s) == [i \in 1..Len(s) |-> s[Len(s) + 1 - i]]

\* The entries of s.
Range(s) == {s[i] : i \in 1..Len(s)}

\* The entries of s after its first n.
Suffix(s, n) == SubSeq(s, n + 1, Len(s))

\* C34. UI deactivate removes a stack suffix: deactivate(name) for an active
\* element (and <esc> for the topmost) removes from the active stack that
\* element and every element above it, calls each removed receiver's
\* deactivate once, topmost first, and leaves the elements below active;
\* deactivate() and a click-off empty the stack; deactivate(name) for an
\* element that is not active changes nothing.
C34_DeactivateSuffix ==
    (rev = "part_000" /\ ui.call.op \in {"deactivate", "escape", "clickoff"}) =>
        LET b == ui.before.active
            n == Len(ui.active)
        IN  /\ n <= Len(b)
            /\ ui.active = SubSeq(b, 1, n)
            /\ ui.log = Reverse(Suffix(b, n))
            /\ ui.call.name = "" => n = 0
            /\ (ui.call.name # "" /\ ui.call.name \in Range(b)) =>
                  /\ n < Len(b)
                  /\ b[n + 1] = ui.call.name
                  /\ ui.call.name \notin Range(Suffix(b, n + 1))
            /\ (ui.call.name # "" /\ ui.call.name \notin Range(b)) =>
                  /\ n = Len(b)
                  /\ ui.display = ui.before.display

\* deactivate("menu") with the shapes shown as the menu's slave.
C34_Witness ==
    /\ rev = "part_000"
    /\ ui.call.op = "deactivate"
    /\ ui.call.name = "menu"
    /\ ui.before.active = <<"menu", "shapes">>
    /\ ui.active = << >>
    /\ ui.log = <<"shapes", "menu">>

\* The place of x nearest to the top of the stack b, 0 if x is not in it.
Topmost(b, x) ==
    IF x \notin Range(b) THEN 0
    ELSE CHOOSE i \in 1..Len(b) : b[i] = x /\ \A j \in (i + 1)..Len(b) : b[j] # x

\* C35: at most one slave per master. After activate(name, {master: M}) with
\* M active, the active stack is the earlier stack up to and including M,
\* followed by name; what was above M was deactivated first, topmost first.
\* After activate(name) with no master the active stack is <<name>>.
C35_OneSlavePerMaster ==
    (rev = "part_000" /\ ui.call.op = "activate") =>
        LET b == ui.before.active
            m == Topmost(b, ui.call.master)
        IN  /\ (ui.call.master # "" /\ m # 0) =>
                  /\ ui.active = Append(SubSeq(b, 1, m), ui.call.name)
                  /\ ui.log = Reverse(Suffix(b, m))
            /\ ui.call.master = "" =>
                  /\ ui.active = <<ui.call.name>>
                  /\ ui.log = Reverse(b)

\* activate("shapes", {master: "menu"}) while the menu has the shapes as its
\* slave: the old slave is hidden and the new one takes its place.
C35_Witness ==
    /\ rev = "part_000"
    /\ ui.call = [op |-> "activate", name |-> "shapes", master |-> "menu"]
    /\ ui.before.active = <<"menu", "shapes">>
    /\ ui.active = <<"menu", "shapes">>
    /\ ui.log = <<"shapes">>

\* No name is twice in the stack s.
NoRepeat(s) == \A i, j \in 1..Len(s) : s[i] = s[j] => i = j

\* The statement of C35 for calls made while no name is twice in the stack.
C35_WithoutRepeats == NoRepeat(ui.before.active) => C35_OneSlavePerMaster

\* C36: shown iff active. After any sequence of activate, deactivate, <esc>
\* and click-off, a registered UI element is displayed exactly when its name
\* is in the active stack, and no name is in the active stack twice.
C36_ShownIffActive ==
    rev = "part_000" =>
        /\ \A name \in Names : Shown(name) <=> name \in Range(ui.active)
        /\ NoRepeat(ui.active)

\* C37: in the U.ui revision, show(name, {master: M}) with M active hides
\* M's slave and the slave's slaves only: M and the elements below it stay
\* in the active list and stay shown, also when M is the topmost element.
C37_ShowKeepsMaster ==
    (/\ rev = "part_001"
     /\ ui.call.op = "activate"
     /\ ui.call.master # ""
     /\ ui.call.master \in Range(ui.before.active)) =>
        LET b == ui.before.active
            m == Topmost(b, ui.call.master)
        IN  /\ ui.active = Append(SubSeq(b, 1, m), ui.call.name)
            /\ ui.log = Reverse(Suffix(b, m))
            /\ \A i \in 1..m : b[i] \in ui.display

\* The animations registered in chains that animate() has closed.
Closed == {k \in 1..Len(anim.chain) : anim.chain[k].c <= anim.ended}

\* The animation before animation k in its chain.
Before(k) ==
    {j \in 1..Len(anim.chain) :
        anim.chain[j] = [c |-> anim.chain[k].c, k |-> anim.chain[k].k - 1]}

\* C38: animation chains run completely and in order. An animation is
\* started only once its chain is closed and the animation before it in the
\* chain has completed, and it is started once; when no animation is under
\* way every animation of every closed chain has been started; after
\* animate() the queue is [null] again. This for chains of any length, the
\* callbacks firing at any time between the calls.
C38_ChainsRunInOrder ==
    /\ \A n \in 1..Len(anim.started) :
          /\ anim.started[n] \in Closed
          /\ Before(anim.started[n]) \subseteq anim.done
          /\ \A m \in 1..Len(anim.started) : anim.started[m] = anim.started[n] => m = n
    /\ anim.running = {} => Closed \subseteq Range(anim.started)
    /\ (anim.ended > 0 /\ Len(anim.chain) = Cardinality(Closed)) =>
          anim.queue = NoAnim.queue

\* The statement of C38 while every chain has one or two animations.
C38_ShortChains ==
    (\A k \in 1..Len(anim.chain) : anim.chain[k].k <= 2) => C38_ChainsRunInOrder

====
